---- MODULE Spec2Model ----
(***************************************************************************)
(* Model of the go-errors package (pkg/errors): the baseError value, its   *)
(* constructors and wrappers, metadata attachment, panic recovery, the     *)
(* Error() rendering, Frame name decomposition and stack capture.          *)
(*                                                                         *)
(* Go strings are sequences of string tokens (a token is a character or an *)
(* opaque piece of text); concatenation is \o.  Pointers are indices into  *)
(* `heap` (0 is nil); Go maps are reference values, so a Metadata value is *)
(* an index into `maps` (0 is the nil map).                                *)
(***************************************************************************)
EXTENDS Naturals, Integers, Sequences, FiniteSets, TLC

VARIABLES
    heap,      \* every error value allocated so far, by address
    maps,      \* every Metadata map allocated so far, by address
    slot,      \* the variable *errPtr of the last RecoverPanic call
    last,      \* the last API call: its name, inputs, result and pre-state
    made,      \* per address: the call that produced the value
    frameIn,   \* Frame name decomposition: the function symbol
    frameOut,  \* Frame name decomposition: the results
    stackIn,   \* stack capture: the call stack and the skip count
    stackOut   \* stack capture: the result

vars == <<heap, maps, slot, last, made, frameIn, frameOut, stackIn, stackOut>>

----------------------------------------------------------------------------
(* Bounds *)

MaxObjs == 3
MaxSymLen == 4
MaxDepth == 34
MaxSkip == 3

Min(a, b) == IF a < b THEN a ELSE b

----------------------------------------------------------------------------
(* Strings *)

HasPrefix(s, p) == Len(s) >= Len(p) /\ SubSeq(s, 1, Len(p)) = p

\* strings.Index(s, c) for a one-character c, 0-based; -1 when absent
Index(s, c) ==
    IF \E i \in 1..Len(s) : s[i] = c
    THEN (CHOOSE i \in 1..Len(s) : s[i] = c /\ \A j \in 1..(i - 1) : s[j] # c) - 1
    ELSE -1

\* strings.LastIndex(s, c) for a one-character c, 0-based; -1 when absent
LastIndex(s, c) ==
    IF \E i \in 1..Len(s) : s[i] = c
    THEN (CHOOSE i \in 1..Len(s) : s[i] = c /\ \A j \in (i + 1)..Len(s) : s[j] # c) - 1
    ELSE -1

\* the Go slice expression s[lo:hi] (0-based, hi exclusive)
Slice(s, lo, hi) == SubSeq(s, lo + 1, hi)

\* fmt.Sprintf(format, args...): a "%v" token consumes one argument (itself a
\* string); a verb with no argument left and arguments left over print as fmt
\* prints them
RECURSIVE Sprintf(_, _)
Sprintf(format, args) ==
    IF format = <<>>
    THEN IF args = <<>> THEN <<>> ELSE <<"%!(EXTRA)">>
    ELSE IF Head(format) = "%v"
         THEN IF args = <<>>
              THEN <<"%!v(MISSING)">> \o Sprintf(Tail(format), args)
              ELSE Head(args) \o Sprintf(Tail(format), Tail(args))
         ELSE <<Head(format)>> \o Sprintf(Tail(format), args)

----------------------------------------------------------------------------
(* Frame *)

RuntimeFrame(pc, fn) == [PC |-> pc, Function |-> fn]

Package_LastDot(f) ==
    IF HasPrefix(f.Function, <<"g", "o", ".">>) \/ HasPrefix(f.Function, <<"t", "y", "p", "e", ".">>)
    THEN <<>>
    ELSE LET pathend == LastIndex(f.Function, "/")
             rest == Slice(f.Function, pathend + 1, Len(f.Function))
             i == LastIndex(rest, ".")
         IN IF i # -1 THEN Slice(f.Function, pathend + 1, pathend + 1 + i) ELSE <<>>

Package(f) ==
    IF HasPrefix(f.Function, <<"g", "o", ".">>) \/ HasPrefix(f.Function, <<"t", "y", "p", "e", ".">>)
    THEN <<>>
    ELSE LET pathend == LastIndex(f.Function, "/")
             rest == Slice(f.Function, pathend + 1, Len(f.Function))
             i == Index(rest, ".")
         IN IF i # -1 THEN Slice(f.Function, pathend + 1, pathend + 1 + i) ELSE <<>>

FuncName(f) ==
    LET i == LastIndex(f.Function, ".")
    IN IF i # -1 THEN Slice(f.Function, i + 1, Len(f.Function)) ELSE f.Function

----------------------------------------------------------------------------
(* Stack capture *)

StackBuf == 32

\* runtime.Callers(3, pcs[:]): fills at most len(pcs) entries, nearest first;
\* `callers` are the frames from the caller of the library function outward
Callers(callers, n) == SubSeq(callers, 1, Min(Len(callers), n))

\* the loop over frames.Next(): `more` is false on the last valid frame
RECURSIVE FramesLoop(_, _)
FramesLoop(pcs, stack) ==
    IF pcs = <<>>
    THEN stack
    ELSE LET frame == Head(pcs)
             more == Len(pcs) > 1
         IN IF ~more THEN stack ELSE FramesLoop(Tail(pcs), Append(stack, frame))

getStack(callers, skip) ==
    LET pcs == Callers(callers, StackBuf)
        stack == FramesLoop(pcs, <<>>)
    IN IF skip <= Len(stack) THEN Slice(stack, skip, Len(stack)) ELSE stack

----------------------------------------------------------------------------
(* Inputs of the error core *)

NoType == <<>>
T1 == <<"T1">>
T2 == <<"T2">>

fA == RuntimeFrame(1, <<"a", ".", "f">>)
fB == RuntimeFrame(2, <<"p", "/", "b", ".", "T", ".", "g">>)
fRoot == RuntimeFrame(3, <<"r", ".", "x">>)
fRecoverPanic == RuntimeFrame(4, <<"e", ".", "R">>)

\* call stacks of a caller of the package, nearest frame first; every
\* goroutine's stack ends in its root frame, so a caller's stack has at
\* least two frames
SiteA == <<fA, fRoot>>
SiteB == <<fB, fA, fRoot>>
Sites == {SiteA, SiteB}

\* (format, args, call stack) of a call that takes a message
Calls ==
    { [format |-> <<>>, args |-> <<>>, callers |-> SiteA],
      [format |-> <<"failed ", "%v">>, args |-> << <<"x">> >>, callers |-> SiteB] }

\* (type, message) of a sentinel declaration
Sentinels == { [typeStr |-> T1, msg |-> <<>>], [typeStr |-> NoType, msg |-> <<"gone">>] }

\* Metadata values: a scalar, or a nested map given by its set of keys
Scalar(n) == [scalar |-> n, sub |-> {}]
Nested(ks) == [scalar |-> 0, sub |-> ks]

EmptyMeta == [k \in {} |-> Scalar(0)]
U1 == [k \in {"k1", "k2"} |-> IF k = "k1" THEN Nested({"n1"}) ELSE Scalar(1)]
U2 == [k \in {"k1"} |-> Nested({"n2"})]
Updates == {U1, U2}

\* values a panic can carry that are not errors, as %v prints them
PanicTexts == { <<"boom">>, <<"50", "%v">> }

----------------------------------------------------------------------------
(* The error core: baseError *)

Addrs == 1..Len(heap)

\* errors.As(err, &baseErr) with baseErr of type *baseError: the first
\* *baseError of err's chain, nil (0) when there is none
RECURSIVE AsIn(_, _)
AsIn(h, err) ==
    IF err = 0 THEN 0
    ELSE IF h[err].kind = "base" THEN err
    ELSE AsIn(h, h[err].cause)

As(err) == AsIn(heap, err)

\* errors.Is(err, target): baseError has no Is method, so identity along the chain
RECURSIVE Is(_, _)
Is(err, target) ==
    IF err = 0 \/ target = 0 THEN err = target
    ELSE err = target \/ Is(heap[err].cause, target)

Unwrap(e) == heap[e].cause

StackTrace(e) == heap[e].stacktrace

Type(e) == IF heap[e].typeStr # <<>> THEN heap[e].typeStr ELSE <<"*errors.baseError">>

\* GetMetadata returns &baseErr.metadata: the address of the field, i.e. of its owner
GetMetadata(err) == As(err)

\* Metadata{}: a new, empty map
NewMap == Len(maps) + 1

BaseError(cause, msg, typeStr, stacktrace, metadata) ==
    [kind |-> "base", cause |-> cause, msg |-> msg, typeStr |-> typeStr,
     stacktrace |-> stacktrace, metadata |-> metadata]

\* an error that is not a *baseError; it may wrap another error
ForeignError(cause) ==
    [kind |-> "foreign", cause |-> cause, msg |-> <<"EOF">>, typeStr |-> <<>>,
     stacktrace |-> <<>>, metadata |-> 0]

NewObj(msg, args, callers) ==
    BaseError(0, Sprintf(msg, args), <<>>, getStack(callers, 0), NewMap)

NewWithTypeObj(msg, typeStr, args, callers) ==
    BaseError(0, Sprintf(msg, args), typeStr, getStack(callers, 0), NewMap)

NewSentinelObj(typeStr, msg) ==
    BaseError(0, msg, typeStr, <<>>, NewMap)

WObj_NoType(err, callers) ==
    LET baseErr == As(err)
    IN IF baseErr # 0
       THEN BaseError(err, <<>>, <<>>, getStack(callers, 0), heap[baseErr].metadata)
       ELSE BaseError(err, <<>>, <<>>, getStack(callers, 0), NewMap)

WObj(err, callers) ==
    LET baseErr == As(err)
    IN IF baseErr # 0
       THEN BaseError(err, <<>>, heap[baseErr].typeStr, getStack(callers, 0), heap[baseErr].metadata)
       ELSE BaseError(err, <<>>, <<>>, getStack(callers, 0), NewMap)

WrapObj(err, msg, args, callers) ==
    LET baseErr == As(err)
    IN IF baseErr # 0
       THEN BaseError(err, Sprintf(msg, args), heap[baseErr].typeStr, getStack(callers, 0),
                      heap[baseErr].metadata)
       ELSE BaseError(err, Sprintf(msg, args), <<>>, getStack(callers, 0), NewMap)

WrapWithTypeObj(err, msg, typeStr, args, callers) ==
    LET metaPtr == GetMetadata(err)
        meta == IF metaPtr # 0 THEN heap[metaPtr].metadata ELSE NewMap
    IN BaseError(err, Sprintf(msg, args), typeStr, getStack(callers, 0), meta)

SentinelWithStackObj_CopyCause(err, callers) ==
    LET baseErr == As(err)
    IN IF baseErr # 0
       THEN BaseError(heap[baseErr].cause, heap[baseErr].msg, heap[baseErr].typeStr,
                      getStack(callers, 0), heap[baseErr].metadata)
       ELSE BaseError(err, <<>>, <<>>, getStack(callers, 0), NewMap)

SentinelWithStackObj(err, callers) ==
    LET baseErr == As(err)
    IN IF baseErr # 0
       THEN BaseError(baseErr, heap[baseErr].msg, heap[baseErr].typeStr,
                      getStack(callers, 0), heap[baseErr].metadata)
       ELSE BaseError(err, <<>>, <<>>, getStack(callers, 0), NewMap)

\* m[k] = v on a Go map
MapSet(m, k, v) == [x \in (DOMAIN m) \cup {k} |-> IF x = k THEN v ELSE m[x]]

\* for k, v := range meta { dst[k] = v }
RECURSIVE RangeAssign(_, _, _)
RangeAssign(dst, meta, ks) ==
    IF ks = {} THEN dst
    ELSE LET k == CHOOSE x \in ks : TRUE
         IN RangeAssign(MapSet(dst, k, meta[k]), meta, ks \ {k})

MergeInto_Replace(dst, meta) == meta

\* the body of WithMetadata on a non-nil map
MergeInto(dst, meta) == RangeAssign(dst, meta, DOMAIN meta)

----------------------------------------------------------------------------
(* Error() *)

ContextMsg_NoType(e) ==
    IF Len(heap[e].stacktrace) > 0
    THEN LET topStack == heap[e].stacktrace[1]
         IN Package(topStack) \o <<".">> \o FuncName(topStack)
    ELSE <<>>

\* lines 100-111: the context part of the display string
ContextMsg(e) ==
    LET contextMsg == IF heap[e].typeStr # <<>> THEN heap[e].typeStr ELSE <<>>
    IN IF Len(heap[e].stacktrace) > 0
       THEN LET topStack == heap[e].stacktrace[1]
            IN IF contextMsg # <<>>
               THEN heap[e].typeStr \o <<"@">> \o Package(topStack) \o <<".">> \o FuncName(topStack)
               ELSE Package(topStack) \o <<".">> \o FuncName(topStack)
       ELSE contextMsg

RECURSIVE Error(_)
Error(e) ==
    IF heap[e].kind = "foreign"
    THEN IF heap[e].cause # 0
         THEN heap[e].msg \o <<": ">> \o Error(heap[e].cause)
         ELSE heap[e].msg
    ELSE LET msg0 == IF ContextMsg(e) # <<>> THEN ContextMsg(e) ELSE <<>>
             msg1 == IF heap[e].msg # <<>>
                     THEN <<"[">> \o msg0 \o <<"] ">> \o heap[e].msg
                     ELSE msg0
         IN IF heap[e].cause # 0
            THEN msg1 \o <<" => ">> \o Error(heap[e].cause)
            ELSE msg1

----------------------------------------------------------------------------
(* State *)

NoCall ==
    [op |-> "none", arg |-> 0, res |-> 0, pre |-> EmptyMeta, upd |-> EmptyMeta,
     callers |-> <<>>, rk |-> "nil", val |-> <<>>, old |-> 0]

Call(op, arg, res, callers) ==
    [NoCall EXCEPT !.op = op, !.arg = arg, !.res = res, !.callers = callers,
                   !.pre = IF As(arg) # 0 /\ heap[As(arg)].metadata # 0
                           THEN maps[heap[As(arg)].metadata]
                           ELSE EmptyMeta]

Origin(op, arg) == [op |-> op, arg |-> arg]

NoFrameOut == [package |-> <<"?">>, funcName |-> <<"?">>, gotPackage |-> FALSE, gotFuncName |-> FALSE]
NoStackOut == [frames |-> <<>>, done |-> FALSE]

CoreIdle == /\ frameIn = <<>> /\ frameOut = NoFrameOut
            /\ stackIn = [callers |-> <<>>, skip |-> 0] /\ stackOut = NoStackOut

Init ==
    /\ heap = <<>>
    /\ maps = <<>>
    /\ slot = 0
    /\ last = NoCall
    /\ made = <<>>
    /\ CoreIdle

\* the new value is stored at the next address; a map it created is stored too
Allocate(h, obj, op, arg, callers) ==
    /\ Len(heap) < MaxObjs
    /\ heap' = Append(h, obj)
    /\ maps' = IF obj.metadata = NewMap THEN Append(maps, EmptyMeta) ELSE maps
    /\ made' = Append(made, Origin(op, arg))
    /\ last' = Call(op, arg, Len(heap) + 1, callers)
    /\ UNCHANGED <<slot, frameIn, frameOut, stackIn, stackOut>>

----------------------------------------------------------------------------
(* Operations *)

New(calls) ==
    \E c \in calls :
        Allocate(heap, NewObj(c.format, c.args, c.callers), "New", 0, c.callers)

NewWithType(calls) ==
    \E c \in calls :
        Allocate(heap, NewWithTypeObj(c.format, T1, c.args, c.callers), "NewWithType", 0, c.callers)

NewSentinel(sentinels) ==
    \E c \in sentinels :
        Allocate(heap, NewSentinelObj(c.typeStr, c.msg), "NewSentinel", 0, <<>>)

\* code outside the package creates an error of its own, possibly wrapping one
Foreign ==
    \E cause \in {0} \cup Addrs :
        Allocate(heap, ForeignError(cause), "Foreign", cause, <<>>)

W(sites) ==
    \E err \in Addrs, callers \in sites :
        Allocate(heap, WObj(err, callers), "W", err, callers)

Wrap(calls) ==
    \E err \in Addrs, c \in calls :
        Allocate(heap, WrapObj(err, c.format, c.args, c.callers), "Wrap", err, c.callers)

WrapWithType(calls) ==
    \E err \in Addrs, c \in calls :
        Allocate(heap, WrapWithTypeObj(err, c.format, T2, c.args, c.callers), "WrapWithType",
                 err, c.callers)

SentinelWithStack(sites) ==
    \E err \in Addrs, callers \in sites :
        LET baseErr == As(err)
            h == IF baseErr # 0 THEN [heap EXCEPT ![baseErr].stacktrace = <<>>] ELSE heap
        IN Allocate(h, SentinelWithStackObj(err, callers), "SentinelWithStack", err, callers)

WithMetadata ==
    \E e \in Addrs, meta \in Updates :
        /\ heap[e].kind = "base"
        /\ IF heap[e].metadata = 0
           THEN /\ maps' = Append(maps, meta)
                /\ heap' = [heap EXCEPT ![e].metadata = NewMap]
           ELSE /\ maps' = [maps EXCEPT ![heap[e].metadata] = MergeInto(@, meta)]
                /\ heap' = heap
        /\ last' = [Call("WithMetadata", e, e, <<>>) EXCEPT !.upd = meta]
        /\ UNCHANGED <<slot, made, frameIn, frameOut, stackIn, stackOut>>

\* lines 25-30: the slot is written only when an error came out
SlotAfter_Always(err, old) == err

SlotAfter(err, old) == IF err # 0 THEN err ELSE old

\* what recover() can hand to RecoverPanic: nil, an error (by address), or
\* some other value (by its %v text)
Recovered ==
    {[rk |-> "nil", addr |-> 0, val |-> <<>>]}
        \cup {[rk |-> "error", addr |-> a, val |-> <<>>] : a \in Addrs}
        \cup {[rk |-> "value", addr |-> 0, val |-> v] : v \in PanicTexts}

\* `old` is what the caller's variable behind errPtr holds at the call: nil,
\* or the error made last; `callers` is the stack of RecoverPanic's caller
RecoverPanic ==
    \E r \in Recovered, old \in {0, Len(heap)} :
        LET note(res, callers) ==
                [Call("RecoverPanic", r.addr, res, callers) EXCEPT
                     !.rk = r.rk, !.val = r.val, !.old = old]
        IN
        /\ IF r.rk = "nil" \/ (r.rk = "error" /\ heap[r.addr].kind = "base")
           THEN /\ slot' = SlotAfter(r.addr, old)
                /\ last' = note(r.addr, <<>>)
                /\ UNCHANGED <<heap, maps, made>>
           ELSE \E callers \in Sites :
                LET inside == <<fRecoverPanic>> \o callers
                    baseErr == IF r.rk = "error"
                               THEN WrapObj(r.addr, <<"caught panic">>, <<>>, inside)
                               ELSE NewObj(Sprintf(<<"caught panic: ", "%v">>, <<r.val>>), <<>>,
                                           inside)
                IN /\ Len(heap) < MaxObjs
                   /\ Len(baseErr.stacktrace) >= 2    \* stacktrace[2:] panics otherwise
                   /\ heap' = Append(heap, [baseErr EXCEPT
                                  !.stacktrace = Slice(@, 2, Len(@))])
                   /\ maps' = IF baseErr.metadata = NewMap THEN Append(maps, EmptyMeta) ELSE maps
                   /\ made' = Append(made, Origin("RecoverPanic", r.addr))
                   /\ slot' = SlotAfter(Len(heap) + 1, old)
                   /\ last' = note(Len(heap) + 1, callers)
        /\ UNCHANGED <<frameIn, frameOut, stackIn, stackOut>>

Next ==
    \/ New(Calls)
    \/ NewWithType(Calls)
    \/ NewSentinel(Sentinels)
    \/ Foreign
    \/ W(Sites)
    \/ Wrap(Calls)
    \/ WrapWithType(Calls)
    \/ SentinelWithStack(Sites)

Spec == Init /\ [][Next]_vars

\* metadata attachment, over the values that own or share a metadata map; one
\* message and one caller per operation, which the metadata does not depend on
MetaCalls == {c \in Calls : c.callers = SiteB}
MetaSentinels == {c \in Sentinels : c.typeStr = T1}

MetaNext ==
    \/ New(MetaCalls)
    \/ NewSentinel(MetaSentinels)
    \/ Foreign
    \/ Wrap(MetaCalls)
    \/ WrapWithType(MetaCalls)
    \/ SentinelWithStack({SiteA})
    \/ WithMetadata

SpecMeta == Init /\ [][MetaNext]_vars

\* the panic boundary, over errors made by New and by foreign code
PanicNext ==
    \/ New(Calls)
    \/ Foreign
    \/ RecoverPanic

SpecPanic == Init /\ [][PanicNext]_vars

----------------------------------------------------------------------------
(* Frame name decomposition on its own *)

Alphabet == {"a", ".", "/"}

RECURSIVE SeqsUpTo(_)
SeqsUpTo(n) ==
    IF n = 0 THEN {<<>>}
    ELSE LET shorter == SeqsUpTo(n - 1)
         IN shorter \cup {Append(s, c) : s \in {t \in shorter : Len(t) = n - 1}, c \in Alphabet}

ReservedPrefixes == { <<"g", "o", ".">>, <<"t", "y", "p", "e", ".">> }

Symbols == {p \o s : p \in {<<>>} \cup ReservedPrefixes, s \in SeqsUpTo(MaxSymLen)}

FrameInit ==
    /\ heap = <<>> /\ maps = <<>> /\ slot = 0 /\ last = NoCall /\ made = <<>>
    /\ stackIn = [callers |-> <<>>, skip |-> 0] /\ stackOut = NoStackOut
    /\ frameIn \in Symbols
    /\ frameOut = NoFrameOut

CallPackage ==
    /\ ~frameOut.gotPackage
    /\ frameOut' = [frameOut EXCEPT !.package = Package(RuntimeFrame(0, frameIn)), !.gotPackage = TRUE]
    /\ UNCHANGED <<heap, maps, slot, last, made, frameIn, stackIn, stackOut>>

CallFuncName ==
    /\ ~frameOut.gotFuncName
    /\ frameOut' = [frameOut EXCEPT !.funcName = FuncName(RuntimeFrame(0, frameIn)), !.gotFuncName = TRUE]
    /\ UNCHANGED <<heap, maps, slot, last, made, frameIn, stackIn, stackOut>>

FrameNext == CallPackage \/ CallFuncName

SpecFrame == FrameInit /\ [][FrameNext]_vars

----------------------------------------------------------------------------
(* Stack capture on its own *)

\* a call stack of depth d above the package's own frames, nearest frame first
StackOfDepth(d) == [i \in 1..d |-> RuntimeFrame(i, <<"f">>)]

StackInit ==
    /\ heap = <<>> /\ maps = <<>> /\ slot = 0 /\ last = NoCall /\ made = <<>>
    /\ frameIn = <<>> /\ frameOut = NoFrameOut
    /\ stackIn \in [callers : {StackOfDepth(d) : d \in 0..MaxDepth}, skip : 0..MaxSkip]
    /\ stackOut = NoStackOut

CallGetStack ==
    /\ ~stackOut.done
    /\ stackOut' = [frames |-> getStack(stackIn.callers, stackIn.skip), done |-> TRUE]
    /\ UNCHANGED <<heap, maps, slot, last, made, frameIn, frameOut, stackIn>>

StackNext == CallGetStack

SpecStack == StackInit /\ [][StackNext]_vars

----------------------------------------------------------------------------
(* Properties *)

Bases == {e \in Addrs : heap[e].kind = "base"}

\* the metadata an error value carries
Meta(e) == maps[heap[e].metadata]

WrapOps == {"W", "Wrap", "WrapWithType", "SentinelWithStack"}
UntaggedWrapOps == {"W", "Wrap", "SentinelWithStack"}

\* C1: every wrap operation keeps its argument as the cause of the result:
\* Unwrap of the result of W, Wrap, WrapWithType or SentinelWithStack is the
\* argument itself, whatever kind of error the argument is.
C1_UnwrapIsArgument ==
    last.op \in WrapOps => Unwrap(last.res) = last.arg

\* the error a run of untagged wraps of Error-Core values started from
RECURSIVE TagRoot(_)
TagRoot(e) ==
    IF made[e].op \in UntaggedWrapOps /\ heap[made[e].arg].kind = "base"
    THEN TagRoot(made[e].arg)
    ELSE e

\* C2: an explicit type tag propagates through any sequence of W, Wrap and
\* SentinelWithStack: the outermost result reports the tag of the error the
\* sequence started from.
C2_TypeTagPropagates ==
    \A e \in Bases :
        heap[TagRoot(e)].kind = "base" /\ heap[TagRoot(e)].typeStr # <<>>
            => Type(e) = heap[TagRoot(e)].typeStr

C2_Witness ==
    \E e \in Bases :
        /\ made[e].op = "SentinelWithStack"
        /\ made[made[e].arg].op \in {"W", "Wrap"}
        /\ TagRoot(e) # made[e].arg
        /\ heap[TagRoot(e)].kind = "base"
        /\ heap[TagRoot(e)].typeStr = T1

\* C3: Wrap exposes every metadata entry of the wrapped error, and WithMetadata
\* is a shallow merge: afterwards the keys are those of the old map and of the
\* update, an updated key holds the update's value (a nested map is replaced
\* whole), any other key keeps its old value; the receiver is returned.
C3_ShallowMerge ==
    /\ (last.op = "Wrap" /\ As(last.arg) # 0) =>
           \A k \in DOMAIN last.pre :
               k \in DOMAIN Meta(last.res) /\ Meta(last.res)[k] = last.pre[k]
    /\ last.op = "WithMetadata" =>
           /\ last.res = last.arg
           /\ DOMAIN Meta(last.res) = (DOMAIN last.pre) \cup (DOMAIN last.upd)
           /\ \A k \in DOMAIN Meta(last.res) :
                  Meta(last.res)[k] = IF k \in DOMAIN last.upd THEN last.upd[k] ELSE last.pre[k]

C3_Witness ==
    /\ last.op = "WithMetadata"
    /\ made[last.arg].op = "Wrap"
    /\ last.upd = U2
    /\ "k2" \in DOMAIN last.pre
    /\ last.pre["k1"] = Nested({"n1"})
    /\ Meta(last.res)["k1"] = Nested({"n2"})

\* C4: a sentinel made by NewSentinel is never changed by SentinelWithStack on
\* it, nor by WithMetadata on a value SentinelWithStack returned for it: its
\* fields and its metadata entries stay as they were.
C4_SentinelReadOnly ==
    [][\A s \in Addrs :
          (/\ made[s].op = "NewSentinel"
           /\ \/ last'.op = "SentinelWithStack" /\ last'.arg = s
              \/ /\ last'.op = "WithMetadata"
                 /\ made[last'.arg].op = "SentinelWithStack"
                 /\ made[last'.arg].arg = s)
          => /\ heap'[s] = heap[s]
             /\ maps'[heap'[s].metadata] = maps[heap[s].metadata]]_vars

\* C5: WrapWithType starts from the entries of the wrapped error's metadata, and
\* a later WithMetadata on its result leaves the wrapped error's metadata as
\* it was.
C5_WrapWithTypeCopies ==
    [][/\ (last'.op = "WrapWithType" /\ As(last'.arg) # 0) =>
              maps'[heap'[last'.res].metadata] = last'.pre
       /\ (/\ last'.op = "WithMetadata"
           /\ made[last'.arg].op = "WrapWithType"
           /\ As(made[last'.arg].arg) # 0) =>
              maps'[heap'[As(made[last'.arg].arg)].metadata]
                  = maps[heap[As(made[last'.arg].arg)].metadata]]_vars

\* the values SentinelWithStack returned for the Error-Core value s
StackedFrom(s) ==
    {r \in Addrs : made[r].op = "SentinelWithStack" /\ made[r].arg = s}

\* a later SentinelWithStack call found r as the Error-Core value of its
\* argument's chain (and so cleared r's trace)
Restacked(r) ==
    \E x \in Addrs : made[x].op = "SentinelWithStack" /\ As(made[x].arg) = r

\* C6: every value SentinelWithStack returns for an Error-Core value s is a
\* value other than s with the type and message of s, matches s under Is, and
\* carries a non-empty stack trace that starts at its own call site (it keeps
\* the trace until a later SentinelWithStack call reaches it); so do any two
\* of them.
C6_SentinelWithStackIdempotent ==
    /\ \A s \in Bases : \A r1, r2 \in StackedFrom(s) :
           /\ r1 # s
           /\ Type(r1) = Type(s) /\ Type(r2) = Type(r1)
           /\ heap[r1].msg = heap[s].msg /\ heap[r2].msg = heap[r1].msg
           /\ Is(r1, s) /\ Is(r2, s)
           /\ ~Restacked(r1) => StackTrace(r1) # <<>>
    /\ (last.op = "SentinelWithStack" /\ heap[last.arg].kind = "base") =>
           /\ StackTrace(last.res) # <<>>
           /\ StackTrace(last.res)[1] = last.callers[1]

C6_Witness ==
    \E s \in Bases : \E r1, r2 \in StackedFrom(s) :
        /\ made[s].op = "NewSentinel"
        /\ r1 # r2
        /\ StackTrace(r1) # <<>> /\ StackTrace(r2) # <<>>
        /\ StackTrace(r1) # StackTrace(r2)
        /\ last.op = "SentinelWithStack" /\ last.res = r2

\* the tokens of a text that are not fmt verbs or fmt's error marks
Literals(s) == SelectSeq(s, LAMBDA t : t \notin {"%v", "%!v(MISSING)", "%!(EXTRA)"})

\* C7: RecoverPanic leaves the slot as it was when nothing was recovered, sets
\* it to the recovered Error-Core value itself, and otherwise sets it to a new
\* Error-Core value: wrapping the recovered error with message "caught panic",
\* or with no cause and a message "caught panic: " followed by the value's text.
C7_RecoverPanicNormalizes ==
    last.op = "RecoverPanic" =>
        IF last.rk = "nil" THEN slot = last.old
        ELSE IF last.rk = "error" /\ heap[last.arg].kind = "base" THEN slot = last.arg
        ELSE /\ slot # 0
             /\ slot = last.res
             /\ heap[slot].kind = "base"
             /\ made[slot].op = "RecoverPanic"
             /\ IF last.rk = "error"
                THEN /\ Unwrap(slot) = last.arg
                     /\ heap[slot].msg = <<"caught panic">>
                ELSE /\ Unwrap(slot) = 0
                     /\ Literals(heap[slot].msg) = <<"caught panic: ">> \o Literals(last.val)

C7_Witness ==
    /\ last.op = "RecoverPanic"
    /\ last.rk = "value"
    /\ last.old # 0
    /\ slot # 0 /\ slot # last.old
    /\ heap[slot].msg = <<"caught panic: ", "boom">>

\* the context of the display string: the first frame's package.function,
\* with the type tag before it and an @ between, or the type tag alone
Context(e) ==
    LET tag == heap[e].typeStr
        st == StackTrace(e)
        place == IF st = <<>> THEN <<>> ELSE Package(st[1]) \o <<".">> \o FuncName(st[1])
    IN IF tag = <<>> THEN place
       ELSE IF st = <<>> THEN tag
       ELSE tag \o <<"@">> \o place

Arrow(e) == IF heap[e].cause = 0 THEN <<>> ELSE <<" => ">> \o Error(heap[e].cause)

\* C8 as stated: the context, then the message in brackets, then the cause
C8_MessageInBrackets ==
    \A e \in Bases :
        Error(e) = Context(e)
                   \o (IF heap[e].msg = <<>> THEN <<>> ELSE <<" [">> \o heap[e].msg \o <<"]">>)
                   \o Arrow(e)

\* C8 (amended): Error() is the context, then the cause after " => "; when the
\* message is not empty it is the context in brackets (kept even when the
\* context is empty), a space and the bare message, then the cause.
C8_ContextInBrackets ==
    \A e \in Bases :
        Error(e) = (IF heap[e].msg = <<>> THEN Context(e)
                    ELSE <<"[">> \o Context(e) \o <<"] ">> \o heap[e].msg)
                   \o Arrow(e)

C8_Witness ==
    \E e \in Bases :
        /\ heap[e].typeStr # <<>>
        /\ StackTrace(e) # <<>>
        /\ heap[e].msg # <<>>
        /\ heap[e].cause # 0
        /\ heap[heap[e].cause].kind = "base"
        /\ heap[heap[e].cause].msg # <<>>

HasChar(s, c) == \E i \in 1..Len(s) : s[i] = c

Reserved(s) == \E p \in ReservedPrefixes : HasPrefix(s, p)

\* the symbol without its path: what follows the last "/"
PathFree(s) ==
    CHOOSE t \in {SubSeq(s, i, Len(s)) : i \in 1..(Len(s) + 1)} :
        /\ ~HasChar(t, "/")
        /\ Len(t) = Len(s) \/ s[Len(s) - Len(t)] = "/"

\* C9 as stated: the text before the last dot of the path-free symbol
C9_PackageBeforeLastDot ==
    frameOut.gotPackage =>
        LET t == PathFree(frameIn)
            p == frameOut.package
        IN IF Reserved(frameIn) \/ ~HasChar(t, ".") THEN p = <<>>
           ELSE /\ Len(p) < Len(t)
                /\ p = SubSeq(t, 1, Len(p))
                /\ t[Len(p) + 1] = "."
                /\ ~HasChar(SubSeq(t, Len(p) + 2, Len(t)), ".")

\* C9 (amended): Package() is the text before the first dot of the path-free
\* symbol, empty when it has no dot, and empty for a symbol prefixed "go."
\* or "type.".
C9_PackageBeforeFirstDot ==
    frameOut.gotPackage =>
        LET t == PathFree(frameIn)
            p == frameOut.package
        IN IF Reserved(frameIn) \/ ~HasChar(t, ".") THEN p = <<>>
           ELSE /\ Len(p) < Len(t)
                /\ p = SubSeq(t, 1, Len(p))
                /\ t[Len(p) + 1] = "."
                /\ ~HasChar(p, ".")

C9_Witness ==
    /\ frameOut.gotPackage
    /\ frameOut.package = <<"a">>
    /\ HasChar(frameIn, "/")
    /\ \E i, j \in 1..Len(PathFree(frameIn)) :
           i # j /\ PathFree(frameIn)[i] = "." /\ PathFree(frameIn)[j] = "."

\* C10: getStack(skip) returns the nearest min(d, 32) frames of a call stack
\* of depth d, nearest first, without the first skip of them (none when skip
\* is at least their number).
C10_EveryCapturedFrame ==
    stackOut.done =>
        LET nearest == SubSeq(stackIn.callers, 1, Min(Len(stackIn.callers), StackBuf))
        IN stackOut.frames = SubSeq(nearest, stackIn.skip + 1, Len(nearest))

====
